---- MODULE Spec2Model ----
(***************************************************************************)
(* The trait registry and dispatcher of atoma (packages/core/src/trait.ts) *)
(* together with the tagged values of brand.ts, unit.ts, bool.ts and       *)
(* bytes.ts that the dispatcher reads a type name from.                    *)
(***************************************************************************)
EXTENDS Integers, Sequences, FiniteSets, TLC

VARIABLES TRAIT_IMPL_REGISTRY, registered, last, store, lastBytes, calls,
          bools, lastBool

vars == <<TRAIT_IMPL_REGISTRY, registered, last>>

\* The variables of a program that works on Bytes values.
bytesVars == <<store, lastBytes, calls>>

\* The variables of a program that works on Bool values.
boolVars == <<bools, lastBool>>

(***************************************************************************)
(* Bounds of the model.                                                    *)
(***************************************************************************)
\* The longest explicit argument list handed to invoke or to an invoker.
MaxArgs == 1

\* The number of Bytes operations a run performs.
MaxCalls == 3

\* The largest index, start or end handed to at, set and slice.
MaxIndex == 2

(***************************************************************************)
(* JavaScript values.  Every value is a record [t, v, a]: t is the value's *)
(* typeof (or "result" for what a called method returned), v names it, a   *)
(* holds the argument list a result was computed from.  Objects are        *)
(* references: v is the object's identity and ObjProps gives its own       *)
(* properties.                                                             *)
(***************************************************************************)
Str(s) == [t |-> "string", v |-> s, a |-> <<>>]

Num(s) == [t |-> "number", v |-> s, a |-> <<>>]

Undefined == [t |-> "undefined", v |-> "undefined", a |-> <<>>]

Sym(description) == [t |-> "symbol", v |-> description, a |-> <<>>]

Obj(id) == [t |-> "object", v |-> id, a |-> <<>>]

Fn(id) == [t |-> "function", v |-> id, a |-> <<>>]

\* Symbol.for("atoma/TypeId"), Symbol.for("atoma/Brand"), ...
TypeIdSymbol == Sym("atoma/TypeId")

BrandSymbol == Sym("atoma/Brand")

UnitSymbol == Sym("atoma/Unit")

BoolSymbol == Sym("atoma/Bool")

BytesSymbol == Sym("atoma/Bytes")

\* The singleton Unit value: its TypeIdSymbol property is the symbol itself.
unit ==
    (BrandSymbol.v :> Obj("Brand<Unit>"))
    @@ (TypeIdSymbol.v :> TypeIdSymbol)
    @@ (UnitSymbol.v :> UnitSymbol)

\* internal.true and internal.false of bool.ts.
true_ ==
    ("_tag" :> Str("True"))
    @@ (BrandSymbol.v :> Obj("Brand<Bool>"))
    @@ (TypeIdSymbol.v :> TypeIdSymbol)
    @@ (BoolSymbol.v :> BoolSymbol)

false_ ==
    ("_tag" :> Str("False"))
    @@ (BrandSymbol.v :> Obj("Brand<Bool>"))
    @@ (TypeIdSymbol.v :> TypeIdSymbol)
    @@ (BoolSymbol.v :> BoolSymbol)

\* new Uint8Array(n): n bytes, all zero.
NewUint8Array(n) == [k \in 1..n |-> 0]

\* make(buffer, length) of bytes.ts; buffer is the sequence of the bytes of
\* a Uint8Array, so the capacity is Len(buffer).
make(buffer, length) ==
    (BrandSymbol.v :> Obj("Brand<Bytes>"))
    @@ (TypeIdSymbol.v :> TypeIdSymbol)
    @@ (BytesSymbol.v :> BytesSymbol)
    @@ ("buffer" :> buffer)
    @@ ("length" :> length)

\* empty() of bytes.ts: make(new Uint8Array(0), 0).
empty == make(NewUint8Array(0), 0)

\* A value that meets the Typed<"Number"> interface of brand.ts: its
\* TypeIdSymbol property is a TypeId whose _name is the type's name.
TypedNumber == (TypeIdSymbol.v :> Obj("TypeId<Number>"))

\* An Implementation: a method table { show: ... }.
Implementation(id) == ("show" :> Fn(id \o ".show"))

\* The own properties of every object of the model.
ObjProps(id) ==
    CASE id = "Unit.unit" -> unit
      [] id = "Bool.true" -> true_
      [] id = "Bool.false" -> false_
      [] id = "Bytes.empty()" -> empty
      [] id = "Brand<Unit>" -> ("Unit" :> Str("Unit"))
      [] id = "Brand<Bool>" -> ("Bool" :> Str("Bool"))
      [] id = "Brand<Bytes>" -> ("Bytes" :> Str("Bytes"))
      [] id = "number42" -> TypedNumber
      [] id = "TypeId<Number>" -> ("_name" :> Str("Number"))
      [] id \in {"I1", "I2", "I3"} -> Implementation(id)
      [] OTHER -> <<>>

\* value[p]: an own property of an object; a symbol primitive has only what
\* Symbol.prototype gives it (description), anything else reads undefined.
Get(value, p) ==
    CASE value.t = "object" ->
            IF p \in DOMAIN ObjProps(value.v) THEN ObjProps(value.v)[p] ELSE Undefined
      [] value.t = "symbol" ->
            IF p = "description" THEN Str(value.v) ELSE Undefined
      [] OTHER -> Undefined

\* `${value}` in a template literal.
TemplateString(value) == value.v

\* !value is false of objects, functions, symbols and non-empty strings.
Truthy(value) ==
    CASE value.t = "undefined" -> FALSE
      [] value.t = "string" -> value.v # ""
      [] value.t = "number" -> value.v \notin {"0", "NaN"}
      [] OTHER -> TRUE

\* The show of the scratchpad: self => `Number(${self})`.
ShowNumber(self) == Str("Number(" \o TemplateString(self) \o ")")

\* fn(...args): what a method returns is determined by the method and by
\* the argument list it was called with.
Apply(fn, args) == [t |-> "result", v |-> fn.v, a |-> args]

(***************************************************************************)
(* Traits, type names, implementations and type structures the operations  *)
(* are called with.                                                        *)
(***************************************************************************)
makeTrait(name, supers) == [_name |-> name, _supers |-> supers]

Eq == makeTrait("Eq", <<>>)

Ord == makeTrait("Ord", <<Eq>>)

OrdShow == makeTrait("Ord/Show", <<Ord>>)

Traits == {Eq, Ord, OrdShow}

\* Traits of a program in which one trait lists two supertraits.
Show == makeTrait("Show", <<>>)

EqShow == makeTrait("EqShow", <<Eq, Show>>)

ListedTraits == {Eq, Show, EqShow}

TypeNames == {"Number", "Show/Number"}

Implementations == {Obj("I1"), Obj("I2")}

Methods == {"show"}

\* TypeStructure: kind and name (fields, variants, underlying are optional
\* and read by no operation of trait.ts).
Structures == [kind : {"struct", "sum", "newtype"}, name : TypeNames]

\* Tagged values handed to the dispatcher.
TaggedValues == {Obj("number42"), Obj("Bool.true")}

\* Every tagged value a constructor of the package produces.
ConstructedValues ==
    {Obj("Unit.unit"), Obj("Bool.true"), Obj("Bool.false"), Obj("Bytes.empty()")}

ArgValues == {Obj("number42")}

RECURSIVE SeqsUpTo(_, _)
SeqsUpTo(S, n) ==
    IF n = 0 THEN {<<>>}
    ELSE LET shorter == SeqsUpTo(S, n - 1)
         IN  shorter \cup {Append(s, x) : s \in shorter, x \in S}

ArgLists == SeqsUpTo(ArgValues, MaxArgs)

(***************************************************************************)
(* What a call does: it returns a value or throws an Error with a message. *)
(***************************************************************************)
Return(value) == [threw |-> FALSE, error |-> "", ret |-> value]

Throw(message) == [threw |-> TRUE, error |-> message, ret |-> Undefined]

(***************************************************************************)
(* The registry (trait.ts).                                                *)
(***************************************************************************)
\* `${trait._name}/${typeName}`
TraitKey(name, typeName) == name \o "/" \o TemplateString(typeName)

hasImpl(trait, typeName) ==
    TraitKey(trait._name, typeName) \in DOMAIN TRAIT_IMPL_REGISTRY

\* A key always holds a "/", so no property inherited from Object.prototype
\* is ever read: an absent key reads undefined.
getImpl(trait, typeName) ==
    LET key == TraitKey(trait._name, typeName)
    IN  IF key \in DOMAIN TRAIT_IMPL_REGISTRY
        THEN TRAIT_IMPL_REGISTRY[key]
        ELSE Undefined

MissingSupertraitMessage(trait, typeName, superTrait) ==
    "Cannot implement trait \"" \o trait._name \o "\" for \""
        \o TemplateString(typeName) \o "\": supertrait \""
        \o superTrait._name \o "\" is not implemented"

\* The for loop of registerImpl from the i-th supertrait on, then the store.
RECURSIVE registerImplFrom(_, _, _, _)
registerImplFrom(trait, typeName, implementation, i) ==
    IF i > Len(trait._supers)
    THEN [out |-> Return(Undefined),
          registry |-> (TraitKey(trait._name, typeName) :> implementation)
                           @@ TRAIT_IMPL_REGISTRY]
    ELSE IF ~hasImpl(trait._supers[i], typeName)
         THEN [out |-> Throw(MissingSupertraitMessage(trait, typeName, trait._supers[i])),
               registry |-> TRAIT_IMPL_REGISTRY]
         ELSE registerImplFrom(trait, typeName, implementation, i + 1)

\* registerImpl with the supertrait validation left out.
registerImplUnchecked(trait, typeName, implementation) ==
    [out |-> Return(Undefined),
     registry |-> (TraitKey(trait._name, typeName) :> implementation)
                      @@ TRAIT_IMPL_REGISTRY]

\* registerImpl that keeps an entry the key already holds (first write wins).
registerImplKeepFirst(trait, typeName, implementation) ==
    IF hasImpl(trait, typeName)
    THEN [out |-> Return(Undefined), registry |-> TRAIT_IMPL_REGISTRY]
    ELSE registerImplFrom(trait, typeName, implementation, 1)

\* registerImpl that assigns a fresh registry holding the new entry only.
registerImplReplaceAll(trait, typeName, implementation) ==
    LET r == registerImplFrom(trait, typeName, implementation, 1)
    IN  IF r.out.threw THEN r
        ELSE [out |-> r.out,
              registry |-> (TraitKey(trait._name, typeName) :> implementation)]

\* registerImpl whose supertrait test accepts an entry for any type name.
registerImplAnyType(trait, typeName, implementation) ==
    LET missing == {i \in 1..Len(trait._supers) :
                        \A n \in TypeNames : ~hasImpl(trait._supers[i], Str(n))}
    IN  IF missing # {}
        THEN [out |-> Throw(MissingSupertraitMessage(
                                trait, typeName,
                                trait._supers[CHOOSE i \in missing :
                                                  \A j \in missing : i <= j])),
              registry |-> TRAIT_IMPL_REGISTRY]
        ELSE [out |-> Return(Undefined),
              registry |-> (TraitKey(trait._name, typeName) :> implementation)
                               @@ TRAIT_IMPL_REGISTRY]

\* registerImpl that reports the last missing supertrait of the list.
registerImplLastMissing(trait, typeName, implementation) ==
    LET missing == {i \in 1..Len(trait._supers) : ~hasImpl(trait._supers[i], typeName)}
    IN  IF missing # {}
        THEN [out |-> Throw(MissingSupertraitMessage(
                                trait, typeName,
                                trait._supers[CHOOSE i \in missing :
                                                  \A j \in missing : j <= i])),
              registry |-> TRAIT_IMPL_REGISTRY]
        ELSE [out |-> Return(Undefined),
              registry |-> (TraitKey(trait._name, typeName) :> implementation)
                               @@ TRAIT_IMPL_REGISTRY]

\* registerImpl that stores the implementation before it validates.
registerImplStoreFirst(trait, typeName, implementation) ==
    LET r == registerImplFrom(trait, typeName, implementation, 1)
    IN  [out |-> r.out,
         registry |-> (TraitKey(trait._name, typeName) :> implementation)
                          @@ TRAIT_IMPL_REGISTRY]

registerImpl(trait, typeName, implementation) ==
    registerImplFrom(trait, typeName, implementation, 1)

(***************************************************************************)
(* Type identity and the dispatcher (trait.ts).                            *)
(***************************************************************************)
getTypeName(value) == Get(Get(value, TypeIdSymbol.v), "_name")

extractTypeName(value) ==
    IF value.t = "string" THEN value ELSE getTypeName(value)

NotImplementedMessage(trait, typeName) ==
    "Trait " \o trait._name \o " not implemented for " \o TemplateString(typeName)

\* invoke that forwards the explicit arguments only, whatever the target is.
invokeWithoutSelf(trait, target, method, args) ==
    LET typeName == extractTypeName(target)
        implementation == getImpl(trait, typeName)
    IN  IF ~Truthy(implementation)
        THEN Throw(NotImplementedMessage(trait, typeName))
        ELSE Return(Apply(Get(implementation, method), args))

\* invoke that passes its target as the first argument, a name included.
invokeWithTarget(trait, target, method, args) ==
    LET typeName == extractTypeName(target)
        implementation == getImpl(trait, typeName)
    IN  IF ~Truthy(implementation)
        THEN Throw(NotImplementedMessage(trait, typeName))
        ELSE Return(Apply(Get(implementation, method), <<target>> \o args))

invoke(trait, target, method, args) ==
    LET typeName == extractTypeName(target)
        implementation == getImpl(trait, typeName)
    IN  IF ~Truthy(implementation)
        THEN Throw(NotImplementedMessage(trait, typeName))
        ELSE LET fn == Get(implementation, method)
             IN  IF fn.t # "function"
                 THEN Throw("TypeError: fn is not a function")
                 ELSE IF target.t = "string"
                      THEN Return(Apply(fn, args))
                      ELSE Return(Apply(fn, <<target>> \o args))

\* The closure makeInvoker returns captures trait and method, nothing else.
makeInvoker(trait, method) == [trait |-> trait, method |-> method]

\* An invoker that resolves its target to a type name before it calls invoke.
callInvokerByName(invoker, target, args) ==
    invoke(invoker.trait, extractTypeName(target), invoker.method, args)

\* Calling the closure: invoke(trait, target, method, ...args).
callInvoker(invoker, target, args) ==
    invoke(invoker.trait, target, invoker.method, args)

\* getBound that hands out whatever the registry reads, undefined included.
getBoundUnchecked(trait, typeName) == Return(getImpl(trait, typeName))

getBound(trait, typeName) ==
    LET implementation == getImpl(trait, typeName)
    IN  IF ~Truthy(implementation)
        THEN Throw(NotImplementedMessage(trait, typeName))
        ELSE Return(implementation)

(***************************************************************************)
(* Derivers (trait.ts).                                                    *)
(***************************************************************************)
\* The options a deriver is made with: it derives for structs and newtypes.
DeriverOptions ==
    {[canDerive |-> [s \in Structures |-> s.kind # "sum"],
      deriveImpl |-> [s \in Structures |->
                         IF s.kind = "struct" THEN Obj("I1") ELSE Obj("I2")]]}

makeDeriver(trait, options) ==
    [trait |-> trait,
     canDerive |-> options.canDerive,
     deriveImpl |-> options.deriveImpl]

Derivers == {makeDeriver(trait, options) : trait \in Traits, options \in DeriverOptions}

NotDerivableMessage(trait, structure) ==
    "Cannot derive trait \"" \o trait._name \o "\" for type \"" \o structure.name
        \o "\" with kind \"" \o structure.kind \o "\""

\* derive without the canDerive test.
deriveUnchecked(deriver, structure) ==
    LET r == registerImpl(deriver.trait, Str(structure.name),
                          deriver.deriveImpl[structure])
    IN  [out |-> r.out, registry |-> r.registry, called |-> <<"deriveImpl">>]

\* derive that registers under the structure's kind instead of its name.
deriveUnderKind(deriver, structure) ==
    IF ~deriver.canDerive[structure]
    THEN [out |-> Throw(NotDerivableMessage(deriver.trait, structure)),
          registry |-> TRAIT_IMPL_REGISTRY, called |-> <<"canDerive">>]
    ELSE LET r == registerImpl(deriver.trait, Str(structure.kind),
                               deriver.deriveImpl[structure])
         IN  [out |-> r.out, registry |-> r.registry,
              called |-> <<"canDerive", "deriveImpl">>]

\* called lists the callbacks of the options that derive has called.
derive(deriver, structure) ==
    IF ~deriver.canDerive[structure]
    THEN [out |-> Throw(NotDerivableMessage(deriver.trait, structure)),
          registry |-> TRAIT_IMPL_REGISTRY, called |-> <<"canDerive">>]
    ELSE LET implementation == deriver.deriveImpl[structure]
             r == registerImpl(deriver.trait, Str(structure.name), implementation)
         IN  [out |-> r.out, registry |-> r.registry,
              called |-> <<"canDerive", "deriveImpl">>]

(***************************************************************************)
(* Bool (bool.ts): the operators read the _tag of the two singletons.      *)
(***************************************************************************)
and(a, b) ==
    IF Get(a, "_tag") = Str("True") /\ Get(b, "_tag") = Str("True")
    THEN Obj("Bool.true")
    ELSE Obj("Bool.false")

or(a, b) ==
    IF Get(a, "_tag") = Str("True") \/ Get(b, "_tag") = Str("True")
    THEN Obj("Bool.true")
    ELSE Obj("Bool.false")

not(a) ==
    IF Get(a, "_tag") = Str("True")
    THEN Obj("Bool.false")
    ELSE Obj("Bool.true")

xor(a, b) ==
    IF Get(a, "_tag") = Get(b, "_tag")
    THEN Obj("Bool.false")
    ELSE Obj("Bool.true")

\* implies that answers as the converse implication does.
impliesConverse(a, b) ==
    IF Get(b, "_tag") = Str("False") \/ Get(a, "_tag") = Str("True")
    THEN Obj("Bool.true")
    ELSE Obj("Bool.false")

implies(a, b) ==
    IF Get(a, "_tag") = Str("False") \/ Get(b, "_tag") = Str("True")
    THEN Obj("Bool.true")
    ELSE Obj("Bool.false")

(***************************************************************************)
(* Bytes (bytes.ts).  An operation that mutates its argument b is an       *)
(* operator that gives the value b holds afterwards.                       *)
(***************************************************************************)
DEFAULT_INITIAL_CAPACITY == 8

GROWTH_FACTOR == 2

Max(S) == CHOOSE m \in S : \A k \in S : k <= m

Min(S) == CHOOSE m \in S : \A k \in S : m <= k

\* A store of value into a Uint8Array element: the value modulo 2^8.
ToUint8(value) == value % 256

\* buffer.subarray(0, end), read as the sequence of its bytes.
subarray(buffer, end) == SubSeq(buffer, 1, end)

\* target.set(source, offset): source copied over target from offset on.
TypedArraySet(target, source, offset) ==
    [k \in 1..Len(target) |->
        IF k > offset /\ k <= offset + Len(source) THEN source[k - offset] ELSE target[k]]

\* The UTF-8 encoding of one code point.
EncodeCodePoint(cp) ==
    IF cp < 128 THEN <<cp>>
    ELSE IF cp < 2048 THEN <<192 + (cp \div 64), 128 + (cp % 64)>>
    ELSE <<224 + (cp \div 4096), 128 + ((cp \div 64) % 64), 128 + (cp % 64)>>

\* new TextEncoder().encode(str), str being the sequence of its code points.
RECURSIVE encode(_)
encode(str) ==
    IF str = <<>> THEN <<>>
    ELSE EncodeCodePoint(Head(str)) \o encode(Tail(str))

withCapacity(capacity) ==
    IF capacity < 0
    THEN Throw("RangeError: Invalid typed array length")
    ELSE Return(make(NewUint8Array(capacity), 0))

from(arr) ==
    LET buffer == TypedArraySet(NewUint8Array(Len(arr)), arr, 0)
    IN  make(buffer, Len(arr))

fromString(str) ==
    LET encoded == encode(str)
    IN  make(encoded, Len(encoded))

\* ensureCapacity that leaves the stored bytes behind when it grows.
ensureCapacityFresh(b, needed) ==
    LET required == b.length + needed
    IN  IF required > Len(b.buffer)
        THEN [b EXCEPT !.buffer = NewUint8Array(Max({required,
                                                     Len(b.buffer) * GROWTH_FACTOR,
                                                     DEFAULT_INITIAL_CAPACITY}))]
        ELSE b

\* ensureCapacity that grows to the required size and no further.
ensureCapacityExact(b, needed) ==
    LET required == b.length + needed
    IN  IF required > Len(b.buffer)
        THEN [b EXCEPT !.buffer = TypedArraySet(NewUint8Array(required),
                                                subarray(b.buffer, b.length), 0)]
        ELSE b

ensureCapacity(b, needed) ==
    LET required == b.length + needed
    IN  IF required > Len(b.buffer)
        THEN LET newCapacity == Max({required, Len(b.buffer) * GROWTH_FACTOR,
                                     DEFAULT_INITIAL_CAPACITY})
                 newBuffer == TypedArraySet(NewUint8Array(newCapacity),
                                            subarray(b.buffer, b.length), 0)
             IN  [b EXCEPT !.buffer = newBuffer]
        ELSE b

\* buffer[index] = value: a store outside the array is ignored.
BufferStore(buffer, index, value) ==
    IF index >= 0 /\ index < Len(buffer)
    THEN [buffer EXCEPT ![index + 1] = ToUint8(value)]
    ELSE buffer

\* push with the ensureCapacity call left out.
pushWithoutEnsure(b, byte) ==
    [b EXCEPT !.buffer = BufferStore(b.buffer, b.length, byte),
              !.length = b.length + 1]

push(b, byte) ==
    LET grown == ensureCapacity(b, 1)
    IN  [grown EXCEPT !.buffer = BufferStore(grown.buffer, grown.length, byte),
                      !.length = grown.length + 1]

\* other is read after ensureCapacity(b, other.length) has run: when other
\* is b itself (same), its buffer is then the one b holds.
pushAll(b, other, same) ==
    LET grown == ensureCapacity(b, other.length)
        source == IF same THEN grown ELSE other
    IN  [grown EXCEPT !.buffer = TypedArraySet(grown.buffer,
                                               subarray(source.buffer, source.length),
                                               grown.length),
                      !.length = grown.length + source.length]

pushString(b, str) ==
    LET encoded == encode(str)
        grown == ensureCapacity(b, Len(encoded))
    IN  [grown EXCEPT !.buffer = TypedArraySet(grown.buffer, encoded, grown.length),
                      !.length = grown.length + Len(encoded)]

\* clear that also drops the buffer.
clearAndRelease(b) == [b EXCEPT !.buffer = NewUint8Array(0), !.length = 0]

clear(b) == [b EXCEPT !.length = 0]

\* set that tests the index against the capacity.
setWithinCapacity(b, index, value) ==
    IF index >= 0 /\ index < Len(b.buffer)
    THEN [b EXCEPT !.buffer = BufferStore(b.buffer, index, value)]
    ELSE b

set(b, index, value) ==
    IF index >= 0 /\ index < b.length
    THEN [b EXCEPT !.buffer = BufferStore(b.buffer, index, value)]
    ELSE b

length(b) == Num(ToString(b.length))

capacity(b) == Num(ToString(Len(b.buffer)))

at(b, index) ==
    IF index >= 0 /\ index < b.length
    THEN Num(ToString(b.buffer[index + 1]))
    ELSE Undefined

isEmpty(b) == IF b.length = 0 THEN Obj("Bool.true") ELSE Obj("Bool.false")

\* A new Uint8Array holding a copy of the stored bytes.
toJS(b) == TypedArraySet(NewUint8Array(b.length), subarray(b.buffer, b.length), 0)

\* slice that copies from the clamped start to the end of the stored bytes.
sliceToEnd(b, start, end) ==
    LET clampedStart == Max({0, Min({start, b.length})})
        sliceLength == b.length - clampedStart
    IN  make(TypedArraySet(NewUint8Array(sliceLength),
                           SubSeq(b.buffer, clampedStart + 1, b.length), 0),
             sliceLength)

\* end is the list of the optional arguments after start: <<>> or <<end>>.
slice(b, start, end) ==
    LET actualEnd == IF end = <<>> THEN b.length ELSE end[1]
        clampedStart == Max({0, Min({start, b.length})})
        clampedEnd == Max({clampedStart, Min({actualEnd, b.length})})
        sliceLength == clampedEnd - clampedStart
        buffer == TypedArraySet(NewUint8Array(sliceLength),
                                SubSeq(b.buffer, clampedStart + 1, clampedEnd), 0)
    IN  make(buffer, sliceLength)

clone(b) ==
    LET buffer == TypedArraySet(NewUint8Array(Len(b.buffer)),
                                subarray(b.buffer, b.length), 0)
    IN  make(buffer, b.length)

\* The for loop of equals from index i on.
RECURSIVE equalsFrom(_, _, _)
equalsFrom(self, other, i) ==
    IF i >= self.length THEN Obj("Bool.true")
    ELSE IF self.buffer[i + 1] # other.buffer[i + 1] THEN Obj("Bool.false")
    ELSE equalsFrom(self, other, i + 1)

\* equals that compares the whole buffers, capacity and unused bytes included.
equalsWholeBuffer(self, other) ==
    IF self.length = other.length /\ self.buffer = other.buffer
    THEN Obj("Bool.true")
    ELSE Obj("Bool.false")

equals(self, other) ==
    IF self.length # other.length
    THEN Obj("Bool.false")
    ELSE equalsFrom(self, other, 0)

(***************************************************************************)
(* The state machine: one action per exported operation.  last records the *)
(* latest call: its arguments (method holds the structure's kind for a     *)
(* derive), the registry entry its key held before the call (prev), the    *)
(* type name it resolved, and what it returned or threw.                   *)
(* registered is the history of successful registrations: the              *)
(* implementation last registered for each (trait name, type name) pair.   *)
(***************************************************************************)
Call(op, trait, target, method, args, typeName, out) ==
    [op |-> op, trait |-> trait, target |-> target, method |-> method, args |-> args,
     prev |-> getImpl(trait, typeName), typeName |-> typeName, out |-> out]

\* The names a program binds its Bytes values to.
Names == {"a", "b"}

\* The names a program binds its Bool values to.
BoolNames == {"p", "q", "r"}

\* The latest Bool call: its arguments a and b (a alone for not), the name
\* its result is bound to, and the result.
BoolCall(op, a, b, into, out) ==
    [op |-> op, a |-> a, b |-> b, into |-> into, out |-> out]

Capacities == {-1, 3}

\* The Uint8Array values handed to from.
Arrays == {<<1, 2>>}

\* Strings, each the sequence of its code points: "\u00e9" and "aaaaaaaaa".
Strings == {<<233>>, <<97, 97, 97, 97, 97, 97, 97, 97, 97>>}

ByteValues == {7, 300}

Indices == -1..MaxIndex

Ends == {<<>>} \cup {<<end>> : end \in Indices}

\* The latest Bytes call: the name b of its first argument, the name the
\* result of a slice is bound to (into), its other arguments, and what it
\* returned or threw; a Bytes it returned is the object its name now holds.
\* end holds the optional end of a slice, or the string of a fromString or
\* pushString.
BytesCall(op, b, into, index, end, value, out) ==
    [op |-> op, b |-> b, into |-> into, index |-> index, end |-> end,
     value |-> value, out |-> out]

Init ==
    /\ TRAIT_IMPL_REGISTRY = <<>>
    /\ registered = <<>>
    /\ last = [op |-> "init", trait |-> Eq, target |-> Undefined, method |-> "",
               args |-> <<>>, prev |-> Undefined, typeName |-> Undefined,
               out |-> Return(Undefined)]
    /\ store = [x \in Names |-> empty]
    /\ lastBytes = BytesCall("init", "a", "a", 0, <<>>, 0, Return(Undefined))
    /\ calls = 0
    /\ bools = [x \in BoolNames |-> IF x = "q" THEN Obj("Bool.false") ELSE Obj("Bool.true")]
    /\ lastBool = BoolCall("init", Obj("Bool.true"), Obj("Bool.true"), "p", Obj("Bool.true"))

HasImpl(trait, typeName) ==
    /\ last' = Call("hasImpl", trait, typeName, "", <<>>, typeName,
                    Return([t |-> "boolean",
                            v |-> IF hasImpl(trait, typeName) THEN "true" ELSE "false",
                            a |-> <<>>]))
    /\ UNCHANGED <<TRAIT_IMPL_REGISTRY, registered>>
    /\ UNCHANGED <<bytesVars, boolVars>>

\* A getImpl that throws NotImplemented for a key the registry lacks.
GetImplStrict(trait, typeName) ==
    /\ last' = Call("getImpl", trait, typeName, "", <<>>, typeName,
                    IF hasImpl(trait, typeName)
                    THEN Return(getImpl(trait, typeName))
                    ELSE Throw(NotImplementedMessage(trait, typeName)))
    /\ UNCHANGED <<TRAIT_IMPL_REGISTRY, registered>>
    /\ UNCHANGED <<bytesVars, boolVars>>

GetImpl(trait, typeName) ==
    /\ last' = Call("getImpl", trait, typeName, "", <<>>, typeName,
                    Return(getImpl(trait, typeName)))
    /\ UNCHANGED <<TRAIT_IMPL_REGISTRY, registered>>
    /\ UNCHANGED <<bytesVars, boolVars>>

RegisterImpl(trait, typeName, implementation) ==
    LET r == registerImpl(trait, typeName, implementation)
    IN  /\ TRAIT_IMPL_REGISTRY' = r.registry
        /\ registered' =
               IF r.out.threw THEN registered
               ELSE (<<trait._name, typeName.v>> :> implementation) @@ registered
        /\ last' = Call("registerImpl", trait, typeName, "", <<implementation>>,
                        typeName, r.out)
        /\ UNCHANGED <<bytesVars, boolVars>>

Invoke(trait, target, method, args) ==
    /\ last' = Call("invoke", trait, target, method, args, extractTypeName(target),
                    invoke(trait, target, method, args))
    /\ UNCHANGED <<TRAIT_IMPL_REGISTRY, registered>>
    /\ UNCHANGED <<bytesVars, boolVars>>

CallInvoker(trait, target, method, args) ==
    /\ last' = Call("invoker", trait, target, method, args, extractTypeName(target),
                    callInvoker(makeInvoker(trait, method), target, args))
    /\ UNCHANGED <<TRAIT_IMPL_REGISTRY, registered>>
    /\ UNCHANGED <<bytesVars, boolVars>>

GetBound(trait, typeName) ==
    /\ last' = Call("getBound", trait, typeName, "", <<>>, typeName,
                    getBound(trait, typeName))
    /\ UNCHANGED <<TRAIT_IMPL_REGISTRY, registered>>
    /\ UNCHANGED <<bytesVars, boolVars>>

Derive(deriver, structure) ==
    LET r == derive(deriver, structure)
    IN  /\ TRAIT_IMPL_REGISTRY' = r.registry
        /\ registered' =
               IF r.out.threw THEN registered
               ELSE (<<deriver.trait._name, structure.name>>
                         :> deriver.deriveImpl[structure]) @@ registered
        /\ last' = Call("derive", deriver.trait, Str(structure.name), structure.kind,
                        <<>>, Str(structure.name), r.out)
        /\ UNCHANGED <<bytesVars, boolVars>>

Targets == {Str(n) : n \in TypeNames} \cup TaggedValues

Next ==
    \/ \E trait \in Traits, n \in TypeNames : HasImpl(trait, Str(n))
    \/ \E trait \in Traits, n \in TypeNames : GetImpl(trait, Str(n))
    \/ \E trait \in Traits, n \in TypeNames, i \in Implementations :
           RegisterImpl(trait, Str(n), i)
    \/ \E trait \in Traits, target \in Targets, m \in Methods, args \in ArgLists :
           Invoke(trait, target, m, args)
    \/ \E trait \in Traits, target \in Targets, m \in Methods, args \in ArgLists :
           CallInvoker(trait, target, m, args)
    \/ \E trait \in Traits, n \in TypeNames : GetBound(trait, Str(n))
    \/ \E deriver \in Derivers, structure \in Structures : Derive(deriver, structure)

Spec == Init /\ [][Next]_vars

\* The registry operations of a program whose traits are ListedTraits.
NextListed ==
    \/ \E trait \in ListedTraits, n \in TypeNames : HasImpl(trait, Str(n))
    \/ \E trait \in ListedTraits, n \in TypeNames, i \in Implementations :
           RegisterImpl(trait, Str(n), i)

SpecListed == Init /\ [][NextListed]_vars

(***************************************************************************)
(* The Bytes state machine: one action per exported operation of bytes.ts, *)
(* on the Bytes values the names of the program are bound to.              *)
(***************************************************************************)
\* Every Bytes call counts towards MaxCalls and leaves the registry alone.
Counted ==
    /\ calls < MaxCalls
    /\ calls' = calls + 1
    /\ UNCHANGED <<vars, boolVars>>

Empty(x) ==
    /\ Counted
    /\ store' = [store EXCEPT ![x] = empty]
    /\ lastBytes' = BytesCall("empty", x, x, 0, <<>>, 0, Return(Obj(x)))

WithCapacity(x, n) ==
    LET r == withCapacity(n)
    IN  /\ Counted
        /\ store' = [store EXCEPT ![x] = IF r.threw THEN store[x] ELSE r.ret]
        /\ lastBytes' = BytesCall("withCapacity", x, x, 0, <<>>, n,
                                  IF r.threw THEN r ELSE Return(Obj(x)))

From(x, arr) ==
    /\ Counted
    /\ store' = [store EXCEPT ![x] = from(arr)]
    /\ lastBytes' = BytesCall("from", x, x, 0, <<>>, 0, Return(Obj(x)))

FromString(x, str) ==
    /\ Counted
    /\ store' = [store EXCEPT ![x] = fromString(str)]
    /\ lastBytes' = BytesCall("fromString", x, x, 0, str, 0, Return(Obj(x)))

Push(x, byte) ==
    /\ Counted
    /\ store' = [store EXCEPT ![x] = push(store[x], byte)]
    /\ lastBytes' = BytesCall("push", x, x, 0, <<>>, byte, Return(Obj("Unit.unit")))

\* pushAll(x, y): into names the other argument.
PushAll(x, y) ==
    /\ Counted
    /\ store' = [store EXCEPT ![x] = pushAll(store[x], store[y], x = y)]
    /\ lastBytes' = BytesCall("pushAll", x, y, 0, <<>>, 0, Return(Obj("Unit.unit")))

PushString(x, str) ==
    /\ Counted
    /\ store' = [store EXCEPT ![x] = pushString(store[x], str)]
    /\ lastBytes' = BytesCall("pushString", x, x, 0, str, 0, Return(Obj("Unit.unit")))

Clear(x) ==
    /\ Counted
    /\ store' = [store EXCEPT ![x] = clear(store[x])]
    /\ lastBytes' = BytesCall("clear", x, x, 0, <<>>, 0, Return(Obj("Unit.unit")))

Set(x, index, value) ==
    /\ Counted
    /\ store' = [store EXCEPT ![x] = set(store[x], index, value)]
    /\ lastBytes' = BytesCall("set", x, x, index, <<>>, value, Return(Obj("Unit.unit")))

Length(x) ==
    /\ Counted
    /\ lastBytes' = BytesCall("length", x, x, 0, <<>>, 0, Return(length(store[x])))
    /\ UNCHANGED store

Capacity(x) ==
    /\ Counted
    /\ lastBytes' = BytesCall("capacity", x, x, 0, <<>>, 0, Return(capacity(store[x])))
    /\ UNCHANGED store

At(x, index) ==
    /\ Counted
    /\ lastBytes' = BytesCall("at", x, x, index, <<>>, 0, Return(at(store[x], index)))
    /\ UNCHANGED store

IsEmpty(x) ==
    /\ Counted
    /\ lastBytes' = BytesCall("isEmpty", x, x, 0, <<>>, 0, Return(isEmpty(store[x])))
    /\ UNCHANGED store

\* into = slice(x, start, end), into being another name than x.
Slice(x, start, end, into) ==
    /\ Counted
    /\ store' = [store EXCEPT ![into] = slice(store[x], start, end)]
    /\ lastBytes' = BytesCall("slice", x, into, start, end, 0, Return(Obj(into)))

ToJS(x) ==
    /\ Counted
    /\ lastBytes' = BytesCall("toJS", x, x, 0, <<>>, 0,
                              Return([t |-> "object", v |-> "Uint8Array",
                                      a |-> toJS(store[x])]))
    /\ UNCHANGED store

\* into = clone(x).
Clone(x, into) ==
    /\ Counted
    /\ store' = [store EXCEPT ![into] = clone(store[x])]
    /\ lastBytes' = BytesCall("clone", x, into, 0, <<>>, 0, Return(Obj(into)))

\* equals(x, y): into names the other argument.
Equals(x, y) ==
    /\ Counted
    /\ lastBytes' = BytesCall("equals", x, y, 0, <<>>, 0,
                              Return(equals(store[x], store[y])))
    /\ UNCHANGED store

NextBytes ==
    \/ \E x \in Names : Empty(x)
    \/ \E x \in Names, n \in Capacities : WithCapacity(x, n)
    \/ \E x \in Names, arr \in Arrays : From(x, arr)
    \/ \E x \in Names, str \in Strings : FromString(x, str)
    \/ \E x \in Names, byte \in ByteValues : Push(x, byte)
    \/ \E x \in Names, y \in Names : PushAll(x, y)
    \/ \E x \in Names, str \in Strings : PushString(x, str)
    \/ \E x \in Names : Clear(x)
    \/ \E x \in Names, index \in Indices, value \in ByteValues : Set(x, index, value)
    \/ \E x \in Names : Length(x)
    \/ \E x \in Names : Capacity(x)
    \/ \E x \in Names, index \in Indices : At(x, index)
    \/ \E x \in Names : IsEmpty(x)
    \/ \E x \in Names, start \in Indices, end \in Ends :
           \E into \in Names \ {x} : Slice(x, start, end, into)
    \/ \E x \in Names : ToJS(x)
    \/ \E x \in Names : \E into \in Names \ {x} : Clone(x, into)
    \/ \E x \in Names, y \in Names : Equals(x, y)

SpecBytes == Init /\ [][NextBytes]_bytesVars

(***************************************************************************)
(* The Bool state machine: one action per logical operator of bool.ts, the *)
(* result bound to a name of the program.                                  *)
(***************************************************************************)
And(x, y, into) ==
    LET out == and(bools[x], bools[y])
    IN  /\ bools' = [bools EXCEPT ![into] = out]
        /\ lastBool' = BoolCall("and", bools[x], bools[y], into, out)
        /\ UNCHANGED <<vars, bytesVars>>

Or(x, y, into) ==
    LET out == or(bools[x], bools[y])
    IN  /\ bools' = [bools EXCEPT ![into] = out]
        /\ lastBool' = BoolCall("or", bools[x], bools[y], into, out)
        /\ UNCHANGED <<vars, bytesVars>>

Not(x, into) ==
    LET out == not(bools[x])
    IN  /\ bools' = [bools EXCEPT ![into] = out]
        /\ lastBool' = BoolCall("not", bools[x], bools[x], into, out)
        /\ UNCHANGED <<vars, bytesVars>>

Xor(x, y, into) ==
    LET out == xor(bools[x], bools[y])
    IN  /\ bools' = [bools EXCEPT ![into] = out]
        /\ lastBool' = BoolCall("xor", bools[x], bools[y], into, out)
        /\ UNCHANGED <<vars, bytesVars>>

Implies(x, y, into) ==
    LET out == implies(bools[x], bools[y])
    IN  /\ bools' = [bools EXCEPT ![into] = out]
        /\ lastBool' = BoolCall("implies", bools[x], bools[y], into, out)
        /\ UNCHANGED <<vars, bytesVars>>

NextBool ==
    \/ \E x \in BoolNames, y \in BoolNames, into \in BoolNames : And(x, y, into)
    \/ \E x \in BoolNames, y \in BoolNames, into \in BoolNames : Or(x, y, into)
    \/ \E x \in BoolNames, into \in BoolNames : Not(x, into)
    \/ \E x \in BoolNames, y \in BoolNames, into \in BoolNames : Xor(x, y, into)
    \/ \E x \in BoolNames, y \in BoolNames, into \in BoolNames : Implies(x, y, into)

SpecBool == Init /\ [][NextBool]_boolVars

(***************************************************************************)
(* Vocabulary of the properties.                                           *)
(***************************************************************************)
\* Every trait reachable from trait through supertrait lists.
RECURSIVE TransitiveSupers(_)
TransitiveSupers(trait) ==
    LET direct == {trait._supers[k] : k \in 1..Len(trait._supers)}
    IN  direct \cup UNION {TransitiveSupers(s) : s \in direct}

DirectSupers(trait) == {trait._supers[k] : k \in 1..Len(trait._supers)}

\* The (trait, type name) pair was registered successfully at some time.
WasRegistered(trait, n) == <<trait._name, n>> \in DOMAIN registered

\* The name a constructor's type declares for its values (TypeId<"Unit">, ...).
DeclaredTypeName(value) ==
    CASE value = Obj("Unit.unit") -> "Unit"
      [] value \in {Obj("Bool.true"), Obj("Bool.false")} -> "Bool"
      [] value = Obj("Bytes.empty()") -> "Bytes"
      [] OTHER -> "Number"

(***************************************************************************)
(* C1: registerImpl(T, N, I) succeeds, storing I under T's key for N, if   *)
(* and only if every trait directly listed in T's supertraits has a        *)
(* registry entry for N before the call; otherwise it throws the           *)
(* MissingSupertrait error and names a missing supertrait.                 *)
(***************************************************************************)
C1_RegisterIffDirectSupertraits ==
    [][last'.op = "registerImpl" =>
          LET trait == last'.trait
              n == last'.target
              ok == \A s \in DirectSupers(trait) : hasImpl(s, n)
          IN  /\ ok <=> ~last'.out.threw
              /\ ok => /\ TraitKey(trait._name, n) \in DOMAIN TRAIT_IMPL_REGISTRY'
                       /\ TRAIT_IMPL_REGISTRY'[TraitKey(trait._name, n)] = last'.args[1]
              /\ ~ok => \E s \in DirectSupers(trait) :
                           /\ ~hasImpl(s, n)
                           /\ last'.out.error = MissingSupertraitMessage(trait, n, s)]_vars

\* A registration of a trait that has a supertrait has succeeded.
C1_Witness ==
    /\ last.op = "registerImpl"
    /\ ~last.out.threw
    /\ last.trait._supers # <<>>

(***************************************************************************)
(* C2: supertrait closure.  Whenever the registry holds an implementation  *)
(* for (T, N) it holds one for (S, N), for every transitive supertrait S   *)
(* of T.                                                                   *)
(***************************************************************************)
C2_SupertraitClosure ==
    \A trait \in Traits, n \in TypeNames :
        hasImpl(trait, Str(n)) =>
            \A s \in TransitiveSupers(trait) : hasImpl(s, Str(n))

(***************************************************************************)
(* C3: for every (trait, type) registered successfully, getImpl returns    *)
(* the implementation last registered for that pair and hasImpl is true.   *)
(***************************************************************************)
C3_LookupReturnsRegistered ==
    \A trait \in Traits, n \in TypeNames :
        WasRegistered(trait, n) =>
            /\ getImpl(trait, Str(n)) = registered[<<trait._name, n>>]
            /\ hasImpl(trait, Str(n))

(***************************************************************************)
(* C4: for every (trait, type) pair that was never registered              *)
(* successfully, getImpl returns undefined, hasImpl returns false, and     *)
(* invoke and getBound throw the NotImplemented error naming both.         *)
(***************************************************************************)
C4_UnregisteredIsAbsent ==
    \A trait \in Traits, n \in TypeNames :
        ~WasRegistered(trait, n) =>
            /\ getImpl(trait, Str(n)) = Undefined
            /\ ~hasImpl(trait, Str(n))
            /\ getBound(trait, Str(n)) = Throw(NotImplementedMessage(trait, Str(n)))
            /\ \A m \in Methods, args \in ArgLists :
                   invoke(trait, Str(n), m, args)
                       = Throw(NotImplementedMessage(trait, Str(n)))

(***************************************************************************)
(* C5: instance and static invocation agree.  For a tagged value v whose   *)
(* type name is N and an implementation registered for (Trait, N),         *)
(* invoke(Trait, v, method, ...args) calls the registered method with      *)
(* (v, ...args) and returns what invoke(Trait, N, method, v, ...args)      *)
(* returns.                                                                *)
(***************************************************************************)
C5_InstanceEqualsStatic ==
    /\ \A trait \in Traits, v \in TaggedValues \cup ConstructedValues,
          m \in Methods, args \in ArgLists :
           LET N == getTypeName(v)
           IN  (N.t = "string" /\ hasImpl(trait, N)) =>
                   /\ invoke(trait, v, m, args) = invoke(trait, N, m, <<v>> \o args)
                   /\ invoke(trait, v, m, args)
                          = Return(Apply(Get(TRAIT_IMPL_REGISTRY[TraitKey(trait._name, N)], m),
                                         <<v>> \o args))
    /\ (/\ last.op = "invoke"
        /\ last.target.t # "string"
        /\ last.typeName.t = "string"
        /\ hasImpl(last.trait, last.typeName)) =>
           last.out = invoke(last.trait, last.typeName, last.method,
                             <<last.target>> \o last.args)

\* An instance invocation on a tagged value has returned.
C5_Witness ==
    /\ last.op = "invoke"
    /\ last.target = Obj("number42")
    /\ last.typeName = Str("Number")
    /\ ~last.out.threw

(***************************************************************************)
(* C6: every tagged value a constructor produces exposes its type name     *)
(* (getTypeName gives "Unit", "Bool", "Bool", "Bytes"), so an instance     *)
(* invocation on such a value looks up the entry registered under that     *)
(* name.                                                                   *)
(***************************************************************************)
C6_ConstructedValueExposesName ==
    (last.op = "invoke" /\ last.target \in ConstructedValues) =>
        /\ \A v \in ConstructedValues : getTypeName(v) = Str(DeclaredTypeName(v))
        /\ last.typeName = Str(DeclaredTypeName(last.target))

(***************************************************************************)
(* C7: for a name target and for a tagged-value target alike, calling      *)
(* makeInvoker(Trait, method) with (target, ...args) returns or throws     *)
(* what invoke(Trait, target, method, ...args) does in the registry state  *)
(* of the call, and like invoke it leaves the registry as it was.          *)
(***************************************************************************)
C7_InvokerEqualsInvoke ==
    [][/\ last'.op = "invoker" =>
              /\ last'.out = invoke(last'.trait, last'.target, last'.method, last'.args)
              /\ TRAIT_IMPL_REGISTRY' = TRAIT_IMPL_REGISTRY
       /\ last'.op = "invoke" => TRAIT_IMPL_REGISTRY' = TRAIT_IMPL_REGISTRY]_vars

\* An invoker called on a tagged value has returned.
C7_Witness ==
    /\ last.op = "invoker"
    /\ last.target = Obj("number42")
    /\ ~last.out.threw

(***************************************************************************)
(* C8: re-registration is last-write-wins.  After a successful             *)
(* registerImpl of I2 for a (trait, type) that was registered before,      *)
(* getImpl, getBound and invoke observe I2 only, and every other registry  *)
(* entry is what it was.                                                   *)
(***************************************************************************)
C8_LastWriteWins ==
    [][(last'.op = "registerImpl" /\ ~last'.out.threw) =>
       \A trait \in Traits, n \in TypeNames, I2 \in Implementations :
           (/\ last'.op = "registerImpl"
            /\ last'.trait = trait
            /\ last'.target = Str(n)
            /\ last'.args = <<I2>>
            /\ ~last'.out.threw
            /\ WasRegistered(trait, n)) =>
               LET key == TraitKey(trait._name, Str(n))
               IN  /\ (getImpl(trait, Str(n)))' = I2
                   /\ (getBound(trait, Str(n)))' = Return(I2)
                   /\ \A m \in Methods, args \in ArgLists :
                          (invoke(trait, Str(n), m, args))'
                              = Return(Apply(Get(I2, m), args))
                   /\ DOMAIN TRAIT_IMPL_REGISTRY' = DOMAIN TRAIT_IMPL_REGISTRY \cup {key}
                   /\ \A k \in DOMAIN TRAIT_IMPL_REGISTRY \ {key} :
                          TRAIT_IMPL_REGISTRY'[k] = TRAIT_IMPL_REGISTRY[k]]_vars

\* Eq has been registered for "Number" again, with another implementation.
C8_Witness ==
    /\ last.op = "registerImpl"
    /\ ~last.out.threw
    /\ last.trait = Eq
    /\ last.target = Str("Number")
    /\ last.prev \in Implementations
    /\ last.prev # last.args[1]
    /\ getImpl(Eq, Str("Number")) = last.args[1]

(***************************************************************************)
(* C9: deriver.derive(structure) throws the NotDerivable error, naming the *)
(* trait, structure.name and structure.kind, exactly when                  *)
(* canDerive(structure) is false.                                          *)
(***************************************************************************)
C9_NotDerivableIffCannotDerive ==
    [][last'.op = "derive" =>
          \A deriver \in Derivers, structure \in Structures :
              Derive(deriver, structure) =>
                  (~deriver.canDerive[structure]
                       <=> (/\ last'.out.threw
                            /\ last'.out.error
                                   = NotDerivableMessage(deriver.trait, structure)))]_vars

\* A derive of a sum structure has thrown.
C9_Witness ==
    /\ last.op = "derive"
    /\ last.method = "sum"
    /\ last.out.threw

(***************************************************************************)
(* C10: when canDerive(structure) is true, deriver.derive(structure) ends  *)
(* as registerImpl(trait, structure.name, deriveImpl(structure)) does:     *)
(* the same registry afterwards, and the same MissingSupertrait error when *)
(* a direct supertrait has no entry for structure.name.                    *)
(***************************************************************************)
C10_DeriveEqualsRegister ==
    [][last'.op = "derive" =>
          \A deriver \in Derivers, structure \in Structures :
              (Derive(deriver, structure) /\ deriver.canDerive[structure]) =>
                  LET r == registerImpl(deriver.trait, Str(structure.name),
                                        deriver.deriveImpl[structure])
                      missing == {s \in DirectSupers(deriver.trait) :
                                      ~hasImpl(s, Str(structure.name))}
                  IN  /\ TRAIT_IMPL_REGISTRY' = r.registry
                      /\ last'.out = r.out
                      /\ missing # {} =>
                             /\ TRAIT_IMPL_REGISTRY' = TRAIT_IMPL_REGISTRY
                             /\ \E s \in missing :
                                    last'.out = Throw(MissingSupertraitMessage(
                                                    deriver.trait, Str(structure.name), s))
                      /\ missing = {} =>
                             /\ ~last'.out.threw
                             /\ (getImpl(deriver.trait, Str(structure.name)))'
                                    = deriver.deriveImpl[structure]]_vars

\* A derive has registered the derived implementation for a trait that has
\* a supertrait.
C10_Witness ==
    /\ last.op = "derive"
    /\ ~last.out.threw
    /\ last.trait._supers # <<>>
    /\ getImpl(last.trait, last.target) \in Implementations

(***************************************************************************)
(* C11: key uniqueness.  Two distinct (trait name, type name) pairs never  *)
(* share a registry entry: a successful registration of one pair leaves    *)
(* hasImpl and getImpl of every other pair as they were.                   *)
(***************************************************************************)
C11_KeyUniqueness ==
    [][(last'.op \in {"registerImpl", "derive"} /\ ~last'.out.threw) =>
          \A trait \in Traits, n \in TypeNames :
              <<trait._name, n>> # <<last'.trait._name, last'.target.v>> =>
                  /\ (hasImpl(trait, Str(n)))' = hasImpl(trait, Str(n))
                  /\ (getImpl(trait, Str(n)))' = getImpl(trait, Str(n))]_vars

(***************************************************************************)
(* C12: the registry starts empty, hasImpl being false for every pair, and *)
(* no step removes an entry: a pair for which hasImpl is true keeps it     *)
(* true in every later state.                                              *)
(***************************************************************************)
C12_StartsEmptyNeverRemoved ==
    /\ \A trait \in Traits, n \in TypeNames : ~hasImpl(trait, Str(n))
    /\ [][\A trait \in Traits, n \in TypeNames :
              hasImpl(trait, Str(n)) => (hasImpl(trait, Str(n)))']_vars

\* A registration has succeeded while the registry held another key.
C12_Witness ==
    /\ last.op = "registerImpl"
    /\ ~last.out.threw
    /\ \E k \in DOMAIN TRAIT_IMPL_REGISTRY :
           k # TraitKey(last.trait._name, last.target)

(***************************************************************************)
(* C13: hasImpl and getImpl never throw, for a registered and for an       *)
(* unregistered key alike (hasImpl answers a boolean, getImpl answers      *)
(* undefined for an absent key), and they leave the registry unchanged.    *)
(***************************************************************************)
C13_LookupsNeverFail ==
    [][last'.op \in {"hasImpl", "getImpl"} =>
          /\ ~last'.out.threw
          /\ TRAIT_IMPL_REGISTRY' = TRAIT_IMPL_REGISTRY
          /\ last'.op = "hasImpl" =>
                 last'.out.ret.v
                     = (IF hasImpl(last'.trait, last'.target) THEN "true" ELSE "false")
          /\ last'.op = "getImpl" =>
                 last'.out.ret
                     = (IF hasImpl(last'.trait, last'.target)
                        THEN TRAIT_IMPL_REGISTRY[TraitKey(last'.trait._name, last'.target)]
                        ELSE Undefined)]_vars

\* getImpl has answered undefined for a key a non-empty registry lacks.
C13_Witness ==
    /\ last.op = "getImpl"
    /\ ~hasImpl(last.trait, last.target)
    /\ last.out = Return(Undefined)
    /\ TRAIT_IMPL_REGISTRY # <<>>

(***************************************************************************)
(* C14: getBound(trait, typeName) returns the implementation exactly when  *)
(* one is registered.  When hasImpl is true getBound returns what getImpl  *)
(* returns and invoke does not throw NotImplemented; when hasImpl is false *)
(* getBound and invoke throw the same NotImplemented error.                *)
(***************************************************************************)
C14_GetBoundIffRegistered ==
    /\ \A trait \in Traits, n \in TypeNames :
           LET N == Str(n)
               notImplemented == Throw(NotImplementedMessage(trait, N))
           IN  /\ hasImpl(trait, N) =>
                      /\ getBound(trait, N) = Return(getImpl(trait, N))
                      /\ \A m \in Methods, args \in ArgLists :
                             invoke(trait, N, m, args) # notImplemented
               /\ ~hasImpl(trait, N) =>
                      /\ getBound(trait, N) = notImplemented
                      /\ \A m \in Methods, args \in ArgLists :
                             invoke(trait, N, m, args) = notImplemented
    /\ last.op = "getBound" =>
           last.out = (IF last.prev = Undefined
                       THEN Throw(NotImplementedMessage(last.trait, last.target))
                       ELSE Return(last.prev))

\* getBound has returned a registered implementation.
C14_Witness ==
    /\ last.op = "getBound"
    /\ ~last.out.threw
    /\ last.out.ret \in Implementations
    /\ hasImpl(last.trait, last.target)

(***************************************************************************)
(* C15: a registerImpl(T, N, I) that fails with MissingSupertrait succeeds *)
(* when repeated after every direct supertrait of T has been registered    *)
(* for N, and a registration of a direct supertrait for another type name  *)
(* leaves it failing as before.                                            *)
(***************************************************************************)
C15_RetryAfterSupertraits ==
    [][(last'.op \in {"registerImpl", "derive"} /\ ~last'.out.threw) =>
          \A T \in Traits, n \in TypeNames, I \in Implementations :
              LET failed == registerImpl(T, Str(n), I).out
              IN  (/\ failed.threw
                   /\ \E s \in DirectSupers(T) :
                          failed.error = MissingSupertraitMessage(T, Str(n), s)) =>
                      /\ (\A s \in DirectSupers(T) : (WasRegistered(s, n))')
                             => (registerImpl(T, Str(n), I).out)' = Return(Undefined)
                      /\ (last'.trait \in DirectSupers(T) /\ last'.target.v # n)
                             => (registerImpl(T, Str(n), I).out)' = failed]_vars

\* Ord has been registered for a type name after Eq was, while Ord cannot
\* be registered for the other type name.
C15_Witness ==
    /\ last.op = "registerImpl"
    /\ ~last.out.threw
    /\ last.trait = Ord
    /\ last.prev = Undefined
    /\ WasRegistered(Eq, last.target.v)
    /\ \E n \in TypeNames : registerImpl(Ord, Str(n), Obj("I1")).out.threw

(***************************************************************************)
(* C16: static invocation forwards exactly the explicit arguments.  With   *)
(* an implementation registered for a type-name string, invoke(trait,      *)
(* name, method, ...args) returns what the registered method returns for   *)
(* args, the name not being among them; with show registered for "Number", *)
(* invoking show on "Number" with 42 calls show(42), which is "Number(42)".*)
(***************************************************************************)
C16_StaticForwardsArgs ==
    /\ \A trait \in Traits, n \in TypeNames, m \in Methods,
          args \in ArgLists \cup {<<Num("42")>>} :
           hasImpl(trait, Str(n)) =>
               invoke(trait, Str(n), m, args)
                   = Return(Apply(Get(TRAIT_IMPL_REGISTRY[TraitKey(trait._name, Str(n))], m),
                                  args))
    /\ hasImpl(Eq, Str("Number")) =>
           LET called == invoke(Eq, Str("Number"), "show", <<Num("42")>>).ret
           IN  /\ called.a = <<Num("42")>>
               /\ ShowNumber(called.a[1]) = Str("Number(42)")
    /\ (last.op = "invoke" /\ last.target.t = "string" /\ ~last.out.threw) =>
           /\ last.out.ret.a = last.args
           /\ last.out.ret.v = Get(last.prev, last.method).v

\* A static invocation with one explicit argument has returned.
C16_Witness ==
    /\ last.op = "invoke"
    /\ last.target = Str("Number")
    /\ last.args = <<Obj("number42")>>
    /\ ~last.out.threw

(***************************************************************************)
(* C17: after any sequence of empty, withCapacity, from, fromString, push, *)
(* pushAll, pushString, clear and set, every Bytes value has               *)
(* 0 <= length <= capacity, the capacity being the size of its buffer.     *)
(***************************************************************************)
C17_LengthWithinCapacity ==
    \A x \in Names :
        /\ 0 <= store[x].length
        /\ store[x].length <= Len(store[x].buffer)

\* A pushAll has grown a buffer beyond the bytes it stores.
C17_Witness ==
    /\ lastBytes.op = "pushAll"
    /\ store[lastBytes.b].length > 0
    /\ Len(store[lastBytes.b].buffer) > store[lastBytes.b].length

(***************************************************************************)
(* C18: for an index outside [0, length), at returns undefined and set     *)
(* changes nothing, bytes within the capacity but beyond length included;  *)
(* for an index inside [0, length), set changes that byte only, leaves     *)
(* length and capacity as they were, and at then returns the stored byte.  *)
(***************************************************************************)
C18_BoundsHandling ==
    [][LET x == lastBytes'.b
           i == lastBytes'.index
           b == store[x]
           after == store'[x]
           inside == i >= 0 /\ i < b.length
       IN  /\ (lastBytes'.op = "at" /\ ~inside) => lastBytes'.out = Return(Undefined)
           /\ (lastBytes'.op = "set" /\ ~inside) => store' = store
           /\ (lastBytes'.op = "set" /\ inside) =>
                  /\ after.length = b.length
                  /\ Len(after.buffer) = Len(b.buffer)
                  /\ \A k \in 1..Len(b.buffer) :
                         k # i + 1 => after.buffer[k] = b.buffer[k]
                  /\ after.buffer[i + 1] = lastBytes'.value % 256
                  /\ at(after, i) = Num(ToString(lastBytes'.value % 256))
                  /\ \A y \in Names \ {x} : store'[y] = store[y]]_bytesVars

\* A set at an index within the capacity but beyond length has returned.
C18_Witness ==
    /\ lastBytes.op = "set"
    /\ lastBytes.index >= store[lastBytes.b].length
    /\ lastBytes.index < Len(store[lastBytes.b].buffer)

(***************************************************************************)
(* C19: slice(b, start, end) gives a new Bytes holding a copy of the       *)
(* stored bytes from start, clamped to [0, length], to end, which defaults *)
(* to length and is clamped to [clamped start, length]; its length equals  *)
(* its capacity and b is unchanged.  A later push, pushAll, pushString,    *)
(* clear or set of one value changes no other value.                       *)
(***************************************************************************)
C19_SliceCopies ==
    [][/\ lastBytes'.op = "slice" =>
              LET b == store[lastBytes'.b]
                  result == store'[lastBytes'.into]
                  start == lastBytes'.index
                  end == IF lastBytes'.end = <<>> THEN b.length ELSE lastBytes'.end[1]
                  from_ == IF start < 0 THEN 0
                           ELSE IF start > b.length THEN b.length ELSE start
                  to_ == IF end < from_ THEN from_
                         ELSE IF end > b.length THEN b.length ELSE end
              IN  /\ result.length = to_ - from_
                  /\ Len(result.buffer) = result.length
                  /\ \A k \in 1..result.length : result.buffer[k] = b.buffer[from_ + k]
                  /\ store'[lastBytes'.b] = b
       /\ lastBytes'.op \in {"push", "pushAll", "pushString", "clear", "set"} =>
              \A y \in Names \ {lastBytes'.b} : store'[y] = store[y]]_bytesVars

\* A slice has copied one byte from the middle of two stored bytes.
C19_Witness ==
    /\ lastBytes.op = "slice"
    /\ lastBytes.index = 1
    /\ store[lastBytes.b].length = 2
    /\ toJS(store[lastBytes.into]) = <<store[lastBytes.b].buffer[2]>>

(***************************************************************************)
(* C20: clear(b) sets length to 0 and keeps the capacity: afterwards       *)
(* isEmpty(b) is Bool.true, capacity(b) is what it was before the call and *)
(* at(b, i) is undefined for every i; after a push that follows, the       *)
(* pushed byte is the only one readable.                                   *)
(***************************************************************************)
C20_ClearKeepsCapacity ==
    [][LET x == lastBytes'.b
           b == store[x]
           after == store'[x]
       IN  /\ lastBytes'.op = "clear" =>
                  /\ after.length = 0
                  /\ isEmpty(after) = Obj("Bool.true")
                  /\ capacity(after) = capacity(b)
                  /\ \A i \in Indices \cup (0..Len(b.buffer)) : at(after, i) = Undefined
           /\ (lastBytes.op = "clear" /\ lastBytes.b = x /\ lastBytes'.op = "push") =>
                  /\ toJS(after) = <<lastBytes'.value % 256>>
                  /\ \A i \in (Indices \cup (0..Len(after.buffer))) \ {0} :
                         at(after, i) = Undefined]_bytesVars

\* A byte has been pushed onto a cleared value whose buffer still holds an
\* older byte behind it.
C20_Witness ==
    /\ lastBytes.op = "push"
    /\ store[lastBytes.b].length = 1
    /\ \E k \in 2..Len(store[lastBytes.b].buffer) : store[lastBytes.b].buffer[k] # 0

(***************************************************************************)
(* C21: equals(a, b) is Bool.true if and only if a and b have the same     *)
(* length and the same byte at every index below it, whatever their        *)
(* capacities and the bytes their buffers hold beyond length; equals is    *)
(* reflexive and symmetric.                                                *)
(***************************************************************************)
C21_EqualsComparesStoredBytes ==
    /\ \A x \in Names, y \in Names :
           LET a == store[x]
               b == store[y]
               same == /\ a.length = b.length
                       /\ \A k \in 1..a.length : a.buffer[k] = b.buffer[k]
           IN  /\ equals(a, b) = (IF same THEN Obj("Bool.true") ELSE Obj("Bool.false"))
               /\ equals(a, a) = Obj("Bool.true")
               /\ equals(a, b) = equals(b, a)
    /\ lastBytes.op = "equals" =>
           lastBytes.out = Return(equals(store[lastBytes.b], store[lastBytes.into]))

\* equals has answered Bool.true for two values of different capacities, one
\* of which holds an older byte beyond its length.
C21_Witness ==
    /\ lastBytes.op = "equals"
    /\ lastBytes.out = Return(Obj("Bool.true"))
    /\ Len(store[lastBytes.b].buffer) # Len(store[lastBytes.into].buffer)
    /\ \E k \in 1..Len(store[lastBytes.b].buffer) :
           k > store[lastBytes.b].length /\ store[lastBytes.b].buffer[k] # 0

(***************************************************************************)
(* C22: for all Bool inputs, and, or, not, xor and implies return the      *)
(* singleton True or False value that the truth table of conjunction,      *)
(* disjunction, negation, exclusive or and material implication gives;     *)
(* implies is False only when a is True and b is False.                    *)
(***************************************************************************)
C22_TruthTables ==
    LET IsTrue(v) == v = Obj("Bool.true")
        Singleton(p) == IF p THEN Obj("Bool.true") ELSE Obj("Bool.false")
        Table(op, a, b) ==
            CASE op = "and" -> IsTrue(a) /\ IsTrue(b)
              [] op = "or" -> IsTrue(a) \/ IsTrue(b)
              [] op = "not" -> ~IsTrue(a)
              [] op = "xor" -> IsTrue(a) # IsTrue(b)
              [] op = "implies" -> ~(IsTrue(a) /\ ~IsTrue(b))
    IN  /\ \A x \in BoolNames, y \in BoolNames :
               LET a == bools[x]
                   b == bools[y]
               IN  /\ and(a, b) = Singleton(Table("and", a, b))
                   /\ or(a, b) = Singleton(Table("or", a, b))
                   /\ not(a) = Singleton(Table("not", a, b))
                   /\ xor(a, b) = Singleton(Table("xor", a, b))
                   /\ implies(a, b) = Singleton(Table("implies", a, b))
        /\ lastBool.op # "init" =>
               /\ lastBool.out = Singleton(Table(lastBool.op, lastBool.a, lastBool.b))
               /\ bools[lastBool.into] = lastBool.out

\* implies has answered False for a True and b False.
C22_Witness ==
    /\ lastBool.op = "implies"
    /\ lastBool.a = Obj("Bool.true")
    /\ lastBool.b = Obj("Bool.false")
    /\ lastBool.out = Obj("Bool.false")

(***************************************************************************)
(* C23: the direct-only supertrait check of registerImpl accepts what a    *)
(* transitive check would accept: in no reachable state are all direct     *)
(* supertraits of T registered for N while a transitive supertrait of T    *)
(* is not.                                                                 *)
(***************************************************************************)
C23_DirectCheckIsTransitive ==
    \A T \in Traits, n \in TypeNames :
        (\A s \in DirectSupers(T) : hasImpl(s, Str(n))) =>
            /\ \A s \in TransitiveSupers(T) : hasImpl(s, Str(n))
            /\ \A I \in Implementations : ~registerImpl(T, Str(n), I).out.threw

(***************************************************************************)
(* C24: when registerImpl throws MissingSupertrait, or derive throws       *)
(* NotDerivable or MissingSupertrait, the registry is left as it was       *)
(* before the call; in the NotDerivable case deriveImpl is not called.     *)
(***************************************************************************)
C24_FailureLeavesRegistry ==
    [][(last'.op \in {"registerImpl", "derive"} /\ last'.out.threw) =>
          /\ TRAIT_IMPL_REGISTRY' = TRAIT_IMPL_REGISTRY
          /\ registered' = registered
          /\ last'.op = "derive" =>
                 \A deriver \in Derivers, structure \in Structures :
                     (/\ Derive(deriver, structure)
                      /\ last'.out.error = NotDerivableMessage(deriver.trait, structure))
                         => "deriveImpl" \notin
                                {derive(deriver, structure).called[k] :
                                     k \in 1..Len(derive(deriver, structure).called)}]_vars

\* A derive of a struct has thrown MissingSupertrait while the registry held
\* an entry.
C24_Witness ==
    /\ last.op = "derive"
    /\ last.method = "struct"
    /\ last.out.threw
    /\ TRAIT_IMPL_REGISTRY # <<>>

(***************************************************************************)
(* C25: when direct supertraits of T are missing for N, registerImpl(T, N, *)
(* I) reports the first missing one in the order T lists its supertraits,  *)
(* and the error names T, N and that supertrait.                           *)
(***************************************************************************)
C25_FirstMissingSupertrait ==
    [][last'.op = "registerImpl" =>
          LET T == last'.trait
              N == last'.target
              missing == {i \in 1..Len(T._supers) : ~hasImpl(T._supers[i], N)}
          IN  missing # {} =>
                  LET first == CHOOSE i \in missing : \A j \in missing : i <= j
                  IN  last'.out = Throw(MissingSupertraitMessage(T, N, T._supers[first]))]_vars

\* A registration of EqShow has thrown while both of its supertraits were
\* missing, naming Eq, the first it lists.
C25_Witness ==
    /\ last.op = "registerImpl"
    /\ last.trait = EqShow
    /\ ~hasImpl(Eq, last.target)
    /\ ~hasImpl(Show, last.target)
    /\ last.out = Throw(MissingSupertraitMessage(EqShow, last.target, Eq))

(***************************************************************************)
(* C26: under any interleaving of registerImpl, derive, hasImpl, getImpl,  *)
(* invoke and getBound calls, each taking effect atomically, the           *)
(* supertrait closure holds in every state, and every dispatch either uses *)
(* the implementation registered for its (trait, type) at the moment of    *)
(* the lookup or throws NotImplemented.                                    *)
(***************************************************************************)
C26_InterleavedCallsKeepClosure ==
    /\ \A T \in Traits, n \in TypeNames, s \in Traits :
           (s \in TransitiveSupers(T) /\ hasImpl(T, Str(n))) => hasImpl(s, Str(n))
    /\ (last.op \in {"invoke", "invoker", "getBound"} /\ last.typeName.t = "string") =>
           \/ last.out = Throw(NotImplementedMessage(last.trait, last.typeName))
           \/ /\ WasRegistered(last.trait, last.typeName.v)
              /\ last.prev = registered[<<last.trait._name, last.typeName.v>>]

(***************************************************************************)
(* C27: append operations extend the content by exactly the appended       *)
(* bytes.  After push(b, x) with x in 0..255 the stored bytes are the old  *)
(* ones followed by x; after pushAll(b, other) they are the old ones of b  *)
(* followed by the stored bytes of other, other being unchanged, also when *)
(* other is b itself and whether or not the buffer had to grow.            *)
(***************************************************************************)
C27_AppendExtendsContent ==
    [][LET x == lastBytes'.b
           y == lastBytes'.into
           b == store[x]
           other == store[y]
           after == store'[x]
       IN  /\ (lastBytes'.op = "push" /\ lastBytes'.value \in 0..255) =>
                  toJS(after) = Append(toJS(b), lastBytes'.value)
           /\ lastBytes'.op = "pushAll" =>
                  /\ toJS(after) = toJS(b) \o toJS(other)
                  /\ y # x => store'[y] = other]_bytesVars

\* A value has been appended to itself and its buffer has grown for it.
C27_Witness ==
    /\ lastBytes.op = "pushAll"
    /\ lastBytes.b = lastBytes.into
    /\ store[lastBytes.b].length = 4
    /\ Len(store[lastBytes.b].buffer) = 8
    /\ store[lastBytes.b].buffer[3] # 0

(***************************************************************************)
(* C28: buffer growth.  When length + needed exceeds the capacity, the new *)
(* capacity is max(length + needed, 2 * old capacity, 8) and the stored    *)
(* bytes are preserved; when it does not, the buffer is not reallocated;   *)
(* no operation on a Bytes value lowers its capacity.                      *)
(***************************************************************************)
C28_GrowthRule ==
    [][LET x == lastBytes'.b
           b == store[x]
           after == store'[x]
           old == Len(b.buffer)
           needed == CASE lastBytes'.op = "push" -> 1
                       [] lastBytes'.op = "pushAll" -> store[lastBytes'.into].length
                       [] lastBytes'.op = "pushString" -> Len(encode(lastBytes'.end))
                       [] OTHER -> 0
           required == b.length + needed
           grown == IF required >= 2 * old /\ required >= 8 THEN required
                    ELSE IF 2 * old >= 8 THEN 2 * old ELSE 8
       IN  /\ (lastBytes'.op \in {"push", "pushAll", "pushString"} /\ required > old) =>
                  /\ Len(after.buffer) = grown
                  /\ \A k \in 1..b.length : after.buffer[k] = b.buffer[k]
           /\ (lastBytes'.op \in {"push", "pushAll", "pushString"} /\ required <= old) =>
                  /\ Len(after.buffer) = old
                  /\ \A k \in 1..old :
                         (k <= b.length \/ k > required) => after.buffer[k] = b.buffer[k]
           /\ lastBytes'.op \in {"push", "pushAll", "pushString", "clear", "set"} =>
                  Len(after.buffer) >= old]_bytesVars

\* A push onto a full buffer of nine bytes has doubled the capacity.
C28_Witness ==
    /\ lastBytes.op = "push"
    /\ store[lastBytes.b].length = 10
    /\ Len(store[lastBytes.b].buffer) = 18

====
